---- MODULE Spec2Model ----
(***************************************************************************)
(* Knowledge ingestion (TextFileKnowledgeSource) and EntityMemory of the   *)
(* crewai package, as state machines.                                      *)
(*                                                                         *)
(* Texts are sequences of code points (naturals); a chunk is a             *)
(* subsequence of the text.  A call that raises is recorded by the kind of *)
(* the error it raised.                                                    *)
(***************************************************************************)
EXTENDS Integers, Sequences, FiniteSets, TLC

VARIABLES
    \* --- TextFileKnowledgeSource -------------------------------------
    content,        \* self.content: the text loaded from the file
    chunk_size,     \* self.chunk_size
    chunk_overlap,  \* self.chunk_overlap
    metadata,       \* self.metadata
    chunks,         \* self.chunks: the ordered chunk list
    saved,          \* the calls that reached the bound storage, in order
    ks_call,        \* the last call made on the source and how it ended
    add_calls,      \* number of add() calls made so far
    \* --- EntityMemory -------------------------------------------------
    memory_provider,  \* self.memory_provider
    storage,          \* self.storage: the bound storage and what it holds
    storage_arg,      \* the storage argument the constructor was given
    em_call,          \* the last call made on the memory and how it ended
    em_calls,         \* number of calls made on the memory so far
    resets_done,      \* history: number of reset() calls that completed
    \* --- Telemetry ----------------------------------------------------
    ready,            \* self.ready
    trace_set,        \* self.trace_set
    installs,         \* times trace.set_tracer_provider has returned normally
    crew,             \* the crew the telemetry reports on
    spans,            \* the spans started so far, with their attributes
    tel_call,         \* the last call made on the telemetry and how it ended
    tel_calls,        \* number of calls made on the telemetry so far
    \* --- ToolCommand.create --------------------------------------------
    cwd,              \* the working directory of the process
    folders,          \* the folders of the directory the command starts in
    tool_pc,          \* where create() stands
    tool_call,        \* the create() call under way or ended last
    creates           \* number of create() calls made so far

vars == <<content, chunk_size, chunk_overlap, metadata, chunks, saved, ks_call,
          add_calls, memory_provider, storage, storage_arg, em_call, em_calls,
          resets_done, ready, trace_set, installs, crew, spans, tel_call,
          tel_calls, cwd, folders, tool_pc, tool_call, creates>>

ksVars == <<content, chunk_size, chunk_overlap, metadata, chunks, saved,
            ks_call, add_calls>>

emVars == <<memory_provider, storage, storage_arg, em_call, em_calls,
            resets_done>>

telVars == <<ready, trace_set, installs, crew, spans, tel_call, tel_calls>>

toolVars == <<cwd, folders, tool_pc, tool_call, creates>>

----------------------------------------------------------------------------
(* Bounds of the model *)

MaxTextLen == 3
MaxDocLen == 21
MaxChunkSize == 3
MaxOverlap == 3
MaxAdds == 2
MaxCalls == 4
MaxTelCalls == 3
MaxCreates == 2

----------------------------------------------------------------------------
(* Helpers *)

None == "None"

Ok(v) == [kind |-> "ok", value |-> v]

Raised(k) == [kind |-> k, value |-> <<>>]

\* no call has been made yet
NoCall == [op |-> "none", result |-> Ok(<<>>)]

NoMetadata == [source |-> "none"]

Min(a, b) == IF a <= b THEN a ELSE b

IsPrefix(s, t) == Len(s) <= Len(t) /\ SubSeq(t, 1, Len(s)) = s

\* ceil(a / b) for a >= 0, b > 0
CeilDiv(a, b) == (a + b - 1) \div b

\* Texts over a two-letter alphabet, up to MaxTextLen long
ShortTexts == UNION {[1..n -> {97, 98}] : n \in 0..MaxTextLen}

\* Documents whose every position holds a different code point, so that a
\* chunk shows the offsets it was cut from
Doc(n) == [p \in 1..n |-> p]

Docs == {Doc(n) : n \in 1..MaxDocLen}

Texts == ShortTexts \cup Docs

ChunkSizes == (1..MaxChunkSize) \cup {10}

Overlaps == 0..MaxOverlap

Metadatas == {[source |-> "a.txt"], [source |-> "b.txt"]}

----------------------------------------------------------------------------
(* TextFileKnowledgeSource._chunk_text *)

\* text[lo:hi] for 0 <= lo, 0 <= hi
PySlice(text, lo, hi) ==
    SubSeq(text, Min(lo, Len(text)) + 1, Min(hi, Len(text)))

\* len(range(start, stop, step)), step # 0
PyRangeLen(start, stop, step) ==
    IF step > 0
    THEN IF stop > start THEN CeilDiv(stop - start, step) ELSE 0
    ELSE IF start > stop THEN CeilDiv(start - stop, -step) ELSE 0

\* list(range(start, stop, step)), step # 0
PyRange(start, stop, step) ==
    [k \in 1..PyRangeLen(start, stop, step) |-> start + (k - 1) * step]

\* mutant: the window advances by chunk_size, the overlap is forgotten
ChunkTextNoOverlap(text, size, overlap) ==
    IF size - overlap = 0
    THEN Raised("ValueError")
    ELSE LET starts == PyRange(0, Len(text), size)
         IN Ok([k \in 1..Len(starts) |-> PySlice(text, starts[k], starts[k] + size)])

\* mutant: the loop body runs once before the end of the text is tested
ChunkTextAtLeastOne(text, size, overlap) ==
    IF size - overlap = 0
    THEN Raised("ValueError")
    ELSE LET stop == IF Len(text) = 0 THEN 1 ELSE Len(text)
             starts == PyRange(0, stop, size - overlap)
         IN Ok([k \in 1..Len(starts) |-> PySlice(text, starts[k], starts[k] + size)])

\* mutant: every window is widened by the overlap
ChunkTextWide(text, size, overlap) ==
    IF size - overlap = 0
    THEN Raised("ValueError")
    ELSE LET starts == PyRange(0, Len(text), size - overlap)
         IN Ok([k \in 1..Len(starts) |->
                   PySlice(text, starts[k], starts[k] + size + overlap)])

\* [text[i : i + size] for i in range(0, len(text), size - overlap)];
\* range() raises ValueError on a zero step and is empty on a negative one
_chunk_text(text, size, overlap) ==
    IF size - overlap = 0
    THEN Raised("ValueError")
    ELSE LET starts == PyRange(0, Len(text), size - overlap)
         IN Ok([k \in 1..Len(starts) |-> PySlice(text, starts[k], starts[k] + size)])

----------------------------------------------------------------------------
(* EntityMemory is idle while the knowledge source is exercised, and the   *)
(* other way round.                                                        *)

NoStorage == [kind |-> "none", type |-> "none", allow_reset |-> "unset",
              built_by |-> "none", items |-> <<>>]

EmIdle ==
    /\ memory_provider = None
    /\ storage = NoStorage
    /\ storage_arg = NoStorage
    /\ em_call = NoCall
    /\ em_calls = 0
    /\ resets_done = 0

NoCrew == [share_crew |-> FALSE, agents |-> 0, tasks |-> 0]

NoTelCall == [op |-> "none", outcome |-> "none"]

TelIdle ==
    /\ ready = FALSE
    /\ trace_set = FALSE
    /\ installs = 0
    /\ crew = NoCrew
    /\ spans = <<>>
    /\ tel_call = NoTelCall
    /\ tel_calls = 0

NoToolCall == [handle |-> <<>>, folder_name |-> "", old_directory |-> "",
               made_folder |-> FALSE, outcome |-> "none"]

ToolIdle ==
    /\ cwd = "/work"
    /\ folders = {}
    /\ tool_pc = "idle"
    /\ tool_call = NoToolCall
    /\ creates = 0

KsIdle ==
    /\ content = <<>>
    /\ chunk_size = 1
    /\ chunk_overlap = 0
    /\ metadata = NoMetadata
    /\ chunks = <<>>
    /\ saved = <<>>
    /\ ks_call = NoCall
    /\ add_calls = 0

----------------------------------------------------------------------------
(* The chunker on its own: one call of _chunk_text on any text and any     *)
(* chunk parameters                                                        *)

InitChunker ==
    /\ content \in Texts
    /\ chunk_size \in ChunkSizes
    /\ chunk_overlap \in Overlaps
    /\ metadata = NoMetadata
    /\ chunks = <<>>
    /\ saved = <<>>
    /\ ks_call = NoCall
    /\ add_calls = 0
    /\ EmIdle
    /\ TelIdle
    /\ ToolIdle

ChunkText ==
    /\ ks_call = NoCall
    /\ ks_call' = [op |-> "_chunk_text",
                   result |-> _chunk_text(content, chunk_size, chunk_overlap)]
    /\ UNCHANGED <<content, chunk_size, chunk_overlap, metadata, chunks, saved,
                   add_calls>>
    /\ UNCHANGED <<emVars, telVars, toolVars>>

NextChunker == ChunkText

SpecChunker == InitChunker /\ [][NextChunker]_vars

----------------------------------------------------------------------------
(* What the chunk list of a text is, stated by offsets: one chunk for      *)
(* every offset i * (size - overlap) that lies inside the text, holding    *)
(* the `size` positions from that offset on, or the rest of the text when  *)
(* fewer are left.                                                         *)

WindowAt(text, start, size) ==
    [p \in 1..Min(size, Len(text) - start) |-> text[start + p]]

WindowCount(text, size, overlap) ==
    Cardinality({i \in 0..Len(text) : i * (size - overlap) < Len(text)})

Windows(text, size, overlap) ==
    [k \in 1..WindowCount(text, size, overlap) |->
        WindowAt(text, (k - 1) * (size - overlap), size)]

ChunkTextCalled == ks_call.op = "_chunk_text"

\* C1: for chunk_size > 0 and 0 <= overlap < chunk_size, _chunk_text returns,
\* in document order, the chunks that start at offsets i * (chunk_size -
\* overlap) of the text, each exactly chunk_size long unless it reaches the
\* end of the text, where it is cut; consecutive start offsets differ by
\* chunk_size - overlap.
C1_ChunksAtStrideOffsets ==
    (ChunkTextCalled /\ chunk_size > 0 /\ 0 <= chunk_overlap
                     /\ chunk_overlap < chunk_size)
    => LET r == ks_call.result
           step == chunk_size - chunk_overlap
       IN /\ r.kind = "ok"
          /\ Len(r.value) = WindowCount(content, chunk_size, chunk_overlap)
          /\ \A i \in 0..(Len(r.value) - 1) :
                /\ r.value[i + 1] = WindowAt(content, i * step, chunk_size)
                /\ Len(r.value[i + 1]) =
                      IF i * step + chunk_size <= Len(content)
                      THEN chunk_size
                      ELSE Len(content) - i * step

\* C1 witness: an overlapping chunking of a document into at least three
\* chunks, the last one cut at the end of the text
C1_Witness ==
    /\ ChunkTextCalled
    /\ 0 < chunk_overlap /\ chunk_overlap < chunk_size
    /\ ks_call.result.kind = "ok"
    /\ Len(ks_call.result.value) >= 3
    /\ Len(ks_call.result.value[Len(ks_call.result.value)]) < chunk_size
    /\ ks_call.result.value[2][1] = chunk_size - chunk_overlap + 1

\* C2: whenever chunk_size <= overlap, chunking fails with a
\* ConfigurationError; it returns no chunk sequence and raises no other kind
\* of error.
C2_ConfigurationErrorOnBadOverlap ==
    (ChunkTextCalled /\ chunk_size <= chunk_overlap)
    => ks_call.result.kind = "ConfigurationError"

----------------------------------------------------------------------------
(* TextFileKnowledgeSource.add                                             *)

\* self.storage.save(self.chunks, metadata): what one call hands the storage
save_documents(self_chunks, md) == [chunks |-> self_chunks, metadata |-> md]

InitSource ==
    /\ content \in Texts
    /\ chunk_size \in ChunkSizes
    /\ chunk_overlap \in Overlaps
    /\ metadata \in Metadatas
    /\ chunks = <<>>
    /\ saved = <<>>
    /\ ks_call = NoCall
    /\ add_calls = 0
    /\ EmIdle
    /\ TelIdle
    /\ ToolIdle

\* mutant: the new batch replaces the chunk list
AddReplacing ==
    /\ add_calls < MaxAdds
    /\ add_calls' = add_calls + 1
    /\ LET r == _chunk_text(content, chunk_size, chunk_overlap)
       IN IF r.kind # "ok"
          THEN /\ ks_call' = [op |-> "add", result |-> Raised(r.kind)]
               /\ UNCHANGED <<chunks, saved>>
          ELSE /\ chunks' = r.value
               /\ \E stored \in BOOLEAN :
                    /\ saved' = Append(saved,
                           [call |-> save_documents(chunks', metadata),
                            stored |-> stored])
                    /\ ks_call' = [op |-> "add",
                                   result |-> IF stored THEN Ok(<<>>)
                                              ELSE Raised("BackendWriteError")]
    /\ UNCHANGED <<content, chunk_size, chunk_overlap, metadata>>
    /\ UNCHANGED <<emVars, telVars, toolVars>>

\* mutant: a source that already holds chunks does not chunk again
AddOnce ==
    /\ add_calls < MaxAdds
    /\ add_calls' = add_calls + 1
    /\ LET r == _chunk_text(content, chunk_size, chunk_overlap)
       IN IF r.kind # "ok"
          THEN /\ ks_call' = [op |-> "add", result |-> Raised(r.kind)]
               /\ UNCHANGED <<chunks, saved>>
          ELSE /\ chunks' = IF chunks = <<>> THEN r.value ELSE chunks
               /\ \E stored \in BOOLEAN :
                    /\ saved' = Append(saved,
                           [call |-> save_documents(chunks', metadata),
                            stored |-> stored])
                    /\ ks_call' = [op |-> "add",
                                   result |-> IF stored THEN Ok(<<>>)
                                              ELSE Raised("BackendWriteError")]
    /\ UNCHANGED <<content, chunk_size, chunk_overlap, metadata>>
    /\ UNCHANGED <<emVars, telVars, toolVars>>

\* mutant: the chunk list is rolled back when the storage fails
AddRollback ==
    /\ add_calls < MaxAdds
    /\ add_calls' = add_calls + 1
    /\ LET r == _chunk_text(content, chunk_size, chunk_overlap)
       IN IF r.kind # "ok"
          THEN /\ ks_call' = [op |-> "add", result |-> Raised(r.kind)]
               /\ UNCHANGED <<chunks, saved>>
          ELSE \E stored \in BOOLEAN :
                  /\ chunks' = IF stored THEN chunks \o r.value ELSE chunks
                  /\ saved' = Append(saved,
                         [call |-> save_documents(chunks \o r.value, metadata),
                          stored |-> stored])
                  /\ ks_call' = [op |-> "add",
                                 result |-> IF stored THEN Ok(<<>>)
                                            ELSE Raised("BackendWriteError")]
    /\ UNCHANGED <<content, chunk_size, chunk_overlap, metadata>>
    /\ UNCHANGED <<emVars, telVars, toolVars>>

\* new_chunks = self._chunk_text(self.content)   (raises: add() ends there)
\* self.chunks.extend(new_chunks)
\* self.save_documents(metadata=self.metadata)   (the storage may fail)
Add ==
    /\ add_calls < MaxAdds
    /\ add_calls' = add_calls + 1
    /\ LET r == _chunk_text(content, chunk_size, chunk_overlap)
       IN IF r.kind # "ok"
          THEN /\ ks_call' = [op |-> "add", result |-> Raised(r.kind)]
               /\ UNCHANGED <<chunks, saved>>
          ELSE /\ chunks' = chunks \o r.value
               /\ \E stored \in BOOLEAN :
                    /\ saved' = Append(saved,
                           [call |-> save_documents(chunks', metadata),
                            stored |-> stored])
                    /\ ks_call' = [op |-> "add",
                                   result |-> IF stored THEN Ok(<<>>)
                                              ELSE Raised("BackendWriteError")]
    /\ UNCHANGED <<content, chunk_size, chunk_overlap, metadata>>
    /\ UNCHANGED <<emVars, telVars, toolVars>>

NextSource == Add

SpecSource == InitSource /\ [][NextSource]_vars

ValidChunking == 0 <= chunk_overlap /\ chunk_overlap < chunk_size

\* the part of the chunk list a step appended
Appended == SubSeq(chunks', Len(chunks) + 1, Len(chunks'))

C4_TwoAddsTwoSubmissions ==
    (add_calls = 2 /\ chunk_size = 10 /\ chunk_overlap = 0)
    => /\ Len(chunks) = 2 * CeilDiv(Len(content), 10)
       /\ Len(saved) = 2

\* C4 witness: two add() calls on 21 positions of text, ten to a chunk
C4_Witness ==
    /\ add_calls = 2 /\ chunk_size = 10 /\ chunk_overlap = 0
    /\ Len(content) = 21
    /\ Len(chunks) = 6
    /\ Len(saved) = 2

\* C5: the chunk list only grows by appending: every step leaves the old
\* chunk list as a prefix of the new one, and an add() that chunks appends
\* the chunks of the content in document order.
C5_ChunkListAppendOnly ==
    [][/\ IsPrefix(chunks, chunks')
       /\ (add_calls' = add_calls + 1 /\ ValidChunking)
          => chunks' = chunks \o Windows(content, chunk_size, chunk_overlap)]_vars

\* C5 witness: a second add() has appended a second batch behind the first
C5_Witness ==
    /\ add_calls = 2
    /\ ValidChunking /\ chunk_overlap > 0
    /\ Len(chunks) >= 4
    /\ chunks[1] # chunks[2]
    /\ chunks[Len(chunks) \div 2 + 1] = chunks[1]

----------------------------------------------------------------------------
(* EntityMemory.  The text handed to the storage is the sequence of its    *)
(* lines (the text split at every newline).                                *)

NoError == [type |-> "none", text |-> ""]

NoItem == [name |-> "", type |-> "", description |-> "",
           metadata |-> [relationships |-> ""]]

EmNoCall == [op |-> "none", item |-> NoItem, data |-> <<>>,
             backend |-> NoError, raised |-> NoError]

\* crew.memory_config["provider"]
Providers == {"mem0", "local"}

\* EntityMemoryItem values
Items ==
    {[name |-> "Alice", type |-> "Person", description |-> "engineer",
      metadata |-> [relationships |-> "works at Acme"]],
     [name |-> "Alice", type |-> "Person", description |-> "",
      metadata |-> [relationships |-> ""]],
     [name |-> "Acme", type |-> "Organization", description |-> "makes anvils",
      metadata |-> [relationships |-> "employs Alice"]]}

\* the errors a storage backend raises from reset(), all of them Exceptions
BackendErrors ==
    {[type |-> "BackendResetError", text |-> "connection refused"],
     [type |-> "PermissionError", text |-> "collection is read-only"]}

\* Mem0Storage(type=..., crew=crew)
Mem0Storage(type, by) ==
    [kind |-> "Mem0Storage", type |-> type, allow_reset |-> "unset",
     built_by |-> by, items |-> <<>>]

\* RAGStorage(type=..., allow_reset=..., embedder_config=..., crew=crew)
RAGStorage(type, allow_reset, by) ==
    [kind |-> "RAGStorage", type |-> type, allow_reset |-> allow_reset,
     built_by |-> by, items |-> <<>>]

\* the storage argument of the constructor: None, or a storage the caller built
StorageArgs ==
    {NoStorage, RAGStorage("entities", "True", "caller"),
     Mem0Storage("entities", "caller")}

\* mutant: the caller's storage is honoured under every provider
EntityMemoryInitArgFirst(provider, arg) ==
    IF arg # NoStorage
    THEN arg
    ELSE IF provider = "mem0"
         THEN Mem0Storage("entities", "EntityMemory")
         ELSE RAGStorage("entities", "False", "EntityMemory")

\* EntityMemory.__init__: the storage it binds
EntityMemoryInit(provider, arg) ==
    IF provider = "mem0"
    THEN Mem0Storage("entities", "EntityMemory")
    ELSE IF arg # NoStorage
         THEN arg
         ELSE RAGStorage("entities", "False", "EntityMemory")

Indent == "            "

\* mutant: the local format without the entity type
FormatWithoutType(provider, item) ==
    IF provider = "mem0"
    THEN << "",
            Indent \o "Remember details about the following entity:",
            Indent \o "Name: " \o item.name,
            Indent \o "Type: " \o item.type,
            Indent \o "Entity Description: " \o item.description,
            Indent >>
    ELSE << item.name \o ": " \o item.description >>

\* mutant: the remote format gives the type before the name
FormatTypeFirst(provider, item) ==
    IF provider = "mem0"
    THEN << "",
            Indent \o "Remember details about the following entity:",
            Indent \o "Type: " \o item.type,
            Indent \o "Name: " \o item.name,
            Indent \o "Entity Description: " \o item.description,
            Indent >>
    ELSE << item.name \o "(" \o item.type \o "): " \o item.description >>

\* the f-strings of EntityMemory.save
Format(provider, item) ==
    IF provider = "mem0"
    THEN << "",
            Indent \o "Remember details about the following entity:",
            Indent \o "Name: " \o item.name,
            Indent \o "Type: " \o item.type,
            Indent \o "Entity Description: " \o item.description,
            Indent >>
    ELSE << item.name \o "(" \o item.type \o "): " \o item.description >>

\* Memory.save(value, metadata): hands both to self.storage.save
MemorySave(st, value, md) ==
    [st EXCEPT !.items = Append(@, [text |-> value, metadata |-> md])]

\* storage.reset(): clears the scope, unless the backend fails
StorageReset(st, err) ==
    IF err = NoError THEN [st EXCEPT !.items = <<>>] ELSE st

\* mutant: the backend's error is let through as it is
ResetErrorRaw(err) == err

\* EntityMemory.reset, its except clause: what reset() raises when
\* storage.reset() raised err
ResetError(err) ==
    IF err = NoError
    THEN NoError
    ELSE [type |-> "Exception",
          text |-> "An error occurred while resetting the entity memory: "
                   \o err.text]

InitEntity ==
    /\ memory_provider \in Providers
    /\ storage_arg \in StorageArgs
    /\ storage = EntityMemoryInit(memory_provider, storage_arg)
    /\ em_call = EmNoCall
    /\ em_calls = 0
    /\ resets_done = 0
    /\ KsIdle
    /\ TelIdle
    /\ ToolIdle

\* mutant: an instance that has been reset refuses to save
SaveUnlessReset ==
    /\ em_calls < MaxCalls
    /\ em_calls' = em_calls + 1
    /\ \E item \in Items :
         LET data == Format(memory_provider, item)
         IN IF resets_done > 0
            THEN /\ storage' = storage
                 /\ em_call' = [op |-> "save", item |-> item, data |-> data,
                                backend |-> NoError,
                                raised |-> [type |-> "Exception",
                                            text |-> "entity memory was reset"]]
            ELSE /\ storage' = MemorySave(storage, data, item.metadata)
                 /\ em_call' = [op |-> "save", item |-> item, data |-> data,
                                backend |-> NoError, raised |-> NoError]
    /\ UNCHANGED <<memory_provider, storage_arg, resets_done>>
    /\ UNCHANGED <<ksVars, telVars, toolVars>>

\* EntityMemory.save
Save ==
    /\ em_calls < MaxCalls
    /\ em_calls' = em_calls + 1
    /\ \E item \in Items :
         LET data == Format(memory_provider, item)
         IN /\ storage' = MemorySave(storage, data, item.metadata)
            /\ em_call' = [op |-> "save", item |-> item, data |-> data,
                           backend |-> NoError, raised |-> NoError]
    /\ UNCHANGED <<memory_provider, storage_arg, resets_done>>
    /\ UNCHANGED <<ksVars, telVars, toolVars>>

\* mutant: a second reset() finds nothing to clear and raises
ResetOnce ==
    /\ em_calls < MaxCalls
    /\ em_calls' = em_calls + 1
    /\ \E err \in {NoError} \cup BackendErrors :
         LET e == IF err = NoError /\ resets_done > 0 /\ storage.items = <<>>
                  THEN [type |-> "ValueError", text |-> "nothing to reset"]
                  ELSE err
         IN /\ storage' = StorageReset(storage, e)
            /\ em_call' = [op |-> "reset", item |-> NoItem, data |-> <<>>,
                           backend |-> err, raised |-> ResetError(e)]
            /\ resets_done' = IF e = NoError THEN resets_done + 1
                              ELSE resets_done
    /\ UNCHANGED <<memory_provider, storage_arg>>
    /\ UNCHANGED <<ksVars, telVars, toolVars>>

\* EntityMemory.reset; whether the backend fails is the environment's choice
Reset ==
    /\ em_calls < MaxCalls
    /\ em_calls' = em_calls + 1
    /\ \E err \in {NoError} \cup BackendErrors :
         /\ storage' = StorageReset(storage, err)
         /\ em_call' = [op |-> "reset", item |-> NoItem, data |-> <<>>,
                        backend |-> err, raised |-> ResetError(err)]
         /\ resets_done' = IF err = NoError THEN resets_done + 1
                           ELSE resets_done
    /\ UNCHANGED <<memory_provider, storage_arg>>
    /\ UNCHANGED <<ksVars, telVars, toolVars>>

NextEntity == Save \/ Reset

SpecEntity == InitEntity /\ [][NextEntity]_vars

----------------------------------------------------------------------------
(* Claims on EntityMemory *)

RemoteHeader == Indent \o "Remember details about the following entity:"

\* the multi-line "remember" statement of the remote variant
IsRemoteText(d) == Len(d) = 6 /\ d[2] = RemoteHeader

\* the compact one-line text of the local variant
IsLocalText(d) == Len(d) = 1

SaveCalled == em_call.op = "save"

ResetCalled == em_call.op = "reset"

LastStored == storage.items[Len(storage.items)]

\* C6 as stated: the format save() uses matches the variant of the bound
\* storage: the remote format iff the bound storage is the remote (mem0)
\* variant, the local format iff it is the local variant, whatever storage
\* argument the caller supplied.
C6_FormatMatchesBoundVariant ==
    SaveCalled
    => /\ storage.kind \in {"Mem0Storage", "RAGStorage"}
       /\ IsRemoteText(em_call.data) <=> storage.kind = "Mem0Storage"
       /\ IsLocalText(em_call.data) <=> storage.kind = "RAGStorage"

\* C6 as amended: the format save() uses follows the provider read at
\* construction: the remote format iff the provider is "mem0", and then the
\* bound storage is the Mem0Storage that EntityMemory builds, whatever
\* storage argument was supplied; otherwise the local format is used and the
\* bound storage is the caller's storage argument when one is supplied, of
\* whatever variant, and a RAGStorage that EntityMemory builds when none is.
\* Exactly one storage is bound.
C6_FormatFollowsProvider ==
    /\ storage.kind \in {"Mem0Storage", "RAGStorage"}
    /\ memory_provider = "mem0"
       => storage.kind = "Mem0Storage" /\ storage.built_by = "EntityMemory"
    /\ (memory_provider # "mem0" /\ storage_arg = NoStorage)
       => storage.kind = "RAGStorage" /\ storage.built_by = "EntityMemory"
    /\ (memory_provider # "mem0" /\ storage_arg # NoStorage)
       => /\ storage.kind = storage_arg.kind
          /\ storage.built_by = "caller"
    /\ SaveCalled
       => /\ IsRemoteText(em_call.data) <=> memory_provider = "mem0"
          /\ IsLocalText(em_call.data) <=> memory_provider # "mem0"

\* C6 witness: under the mem0 provider a save() went in the remote format to
\* the Mem0Storage the memory built, although the caller had supplied a
\* local storage
C6_Witness ==
    /\ SaveCalled
    /\ memory_provider = "mem0"
    /\ storage_arg.kind = "RAGStorage"
    /\ storage.kind = "Mem0Storage"
    /\ IsRemoteText(LastStored.text)

\* C7: whenever storage.reset() fails, reset() fails too, with an error that
\* is not the backend's own error type and whose message names the entity
\* memory and carries the backend's error text; the failure is never
\* swallowed.
C7_ResetWrapsBackendFailure ==
    (ResetCalled /\ em_call.backend # NoError)
    => /\ em_call.raised # NoError
       /\ em_call.raised.type = "Exception"
       /\ em_call.raised.type # em_call.backend.type
       /\ em_call.raised.text =
             "An error occurred while resetting the entity memory: "
             \o em_call.backend.text

\* C7 witness: the backend refused the connection during reset()
C7_Witness ==
    /\ ResetCalled
    /\ em_call.backend.type = "BackendResetError"
    /\ em_call.raised.text =
         "An error occurred while resetting the entity memory: connection refused"

\* a step that is a call of save()
SaveStep == em_calls' = em_calls + 1 /\ em_call'.op = "save"

\* a step that is a call of reset()
ResetStep == em_calls' = em_calls + 1 /\ em_call'.op = "reset"

C10_LocalFormatExact ==
    (SaveCalled /\ storage.kind = "RAGStorage")
    => LET item == em_call.item
       IN /\ LastStored.text =
                << item.name \o "(" \o item.type \o "): " \o item.description >>
          /\ LastStored.metadata = item.metadata
          /\ (item.name = "Alice" /\ item.description = "engineer")
             => LastStored.text = << "Alice(Person): engineer" >>
          /\ (item.name = "Acme")
             => LastStored.text = << "Acme(Organization): makes anvils" >>

\* C10 witness: Alice the engineer saved to a local storage
C10_Witness ==
    /\ SaveCalled
    /\ storage.kind = "RAGStorage"
    /\ LastStored.text = << "Alice(Person): engineer" >>
    /\ LastStored.metadata = [relationships |-> "works at Acme"]

----------------------------------------------------------------------------
(* Further claims on the chunker *)

ChunkResult == ks_call.result.value

\* C12: for valid chunk parameters the empty text yields the empty chunk
\* sequence, not a sequence holding one empty chunk; for a non-empty text
\* every chunk is non-empty and the last chunk ends at len(text).
C12_EmptyTextNoChunksLastChunkEndsText ==
    (ChunkTextCalled /\ ValidChunking)
    => LET n == Len(ChunkResult)
           step == chunk_size - chunk_overlap
       IN /\ ks_call.result.kind = "ok"
          /\ content = <<>> => ChunkResult = <<>>
          /\ content # <<>>
             => /\ n >= 1
                /\ \A k \in 1..n : Len(ChunkResult[k]) >= 1
                /\ (n - 1) * step + Len(ChunkResult[n]) = Len(content)
                /\ ChunkResult[n] =
                      SubSeq(content, (n - 1) * step + 1, Len(content))

\* C12 witness: the empty text chunked with an overlap
C12_Witness ==
    /\ ChunkTextCalled
    /\ content = <<>>
    /\ 0 < chunk_overlap /\ chunk_overlap < chunk_size
    /\ ks_call.result = Ok(<<>>)

\* the text positions (from 1) chunk k covers: chunk k starts at offset
\* (k - 1) * (chunk_size - overlap) and covers as many positions as it is long
ChunkPositions(k) ==
    {(k - 1) * (chunk_size - chunk_overlap) + p : p \in 1..Len(ChunkResult[k])}

Shared(i, j) == Cardinality(ChunkPositions(i) \cap ChunkPositions(j))

\* chunk k holds the text of the positions it covers
ChunkHoldsItsPositions(k) ==
    \A p \in 1..Len(ChunkResult[k]) :
        ChunkResult[k][p] = content[(k - 1) * (chunk_size - chunk_overlap) + p]

\* chunk k was cut at the end of the text
Truncated(k) == Len(ChunkResult[k]) < chunk_size

Max(a, b) == IF a >= b THEN a ELSE b

\* C14 as stated: every chunk shares exactly `overlap` positions with its
\* immediate predecessor (fewer only where the predecessor or the chunk is
\* cut at the end of the text) and no position with any chunk that is not
\* its immediate predecessor or successor.
C14_OnlyNeighboursOverlap ==
    (ChunkTextCalled /\ ValidChunking)
    => \A i, j \in 1..Len(ChunkResult) :
          /\ ChunkHoldsItsPositions(i)
          /\ j = i + 1
             => /\ Shared(i, j) <= chunk_overlap
                /\ (~Truncated(i) /\ ~Truncated(j))
                   => Shared(i, j) = chunk_overlap
          /\ j > i + 1 => Shared(i, j) = 0

\* C14 as amended: every chunk shares exactly `overlap` positions with its
\* immediate predecessor (fewer only where cut at the end of the text); two
\* chunks d apart in the sequence share chunk_size - d * (chunk_size -
\* overlap) positions when that is positive (fewer only where cut at the end
\* of the text), so chunks that are not neighbours share no position exactly
\* when 2 * overlap <= chunk_size.
C14_OverlapByDistance ==
    (ChunkTextCalled /\ ValidChunking)
    => LET step == chunk_size - chunk_overlap
       IN \A i, j \in 1..Len(ChunkResult) :
             /\ ChunkHoldsItsPositions(i)
             /\ j > i
                => /\ Shared(i, j) <= Max(0, chunk_size - (j - i) * step)
                   /\ (~Truncated(i) /\ ~Truncated(j))
                      => Shared(i, j) = Max(0, chunk_size - (j - i) * step)
             /\ j = i + 1 /\ ~Truncated(i) /\ ~Truncated(j)
                => Shared(i, j) = chunk_overlap
             /\ (j > i + 1 /\ 2 * chunk_overlap <= chunk_size)
                => Shared(i, j) = 0

\* C14 witness: with chunk_size 3 and overlap 2 the first and the third
\* chunk share a position
C14_Witness ==
    /\ ChunkTextCalled
    /\ chunk_size = 3 /\ chunk_overlap = 2
    /\ Len(ChunkResult) >= 3
    /\ Shared(1, 2) = 2
    /\ Shared(1, 3) = 1

----------------------------------------------------------------------------
(* Further claims on add() *)

AddStep == add_calls' = add_calls + 1

\* C15: add() appends the new chunks before it submits and does not roll
\* back: when the submission fails, add() fails and the chunk list keeps the
\* chunks of the failed call while the storage has stored nothing of it, and
\* an add() retried after the failure appends the same chunks once more.
C15_NoRollbackOnFailedSubmission ==
    [][/\ (AddStep /\ ValidChunking
                   /\ ks_call'.result.kind = "BackendWriteError")
          => /\ chunks' = chunks \o Windows(content, chunk_size, chunk_overlap)
             /\ Len(saved') = Len(saved) + 1
             /\ ~saved'[Len(saved')].stored
       /\ (AddStep /\ ValidChunking
                   /\ ks_call.result.kind = "BackendWriteError")
          => /\ chunks' = chunks \o Windows(content, chunk_size, chunk_overlap)
             /\ IsPrefix(Windows(content, chunk_size, chunk_overlap)
                         \o Windows(content, chunk_size, chunk_overlap),
                         chunks')]_vars

\* C15 witness: the first add() failed in the storage, the retry went
\* through; the chunk list holds the chunks twice and the storage was handed
\* both copies
C15_Witness ==
    /\ add_calls = 2
    /\ ValidChunking
    /\ Len(saved) = 2
    /\ ~saved[1].stored /\ saved[2].stored
    /\ Len(chunks) = 4
    /\ chunks[1] = chunks[3] /\ chunks[2] = chunks[4] /\ chunks[1] # chunks[2]
    /\ saved[2].call.chunks = chunks

----------------------------------------------------------------------------
(* Further claims on EntityMemory *)

\* the lines of the remote format for an item, after the blank first line
\* the f-string opens with: header, name, type, description
RemoteLinesOf(item) ==
    << Indent \o "Remember details about the following entity:",
       Indent \o "Name: " \o item.name,
       Indent \o "Type: " \o item.type,
       Indent \o "Entity Description: " \o item.description >>

\* C13 as stated: every record saved through an EntityMemory bound to the
\* remote (mem0) variant reaches the storage as a text that has the
\* "Remember details" header line first, then the record's name, type and
\* description each on its own line, in that order, with the record's
\* metadata unchanged.
C13_RemoteFormatWhenBoundRemote ==
    (SaveCalled /\ storage.kind = "Mem0Storage")
    => /\ Len(LastStored.text) >= 5
       /\ SubSeq(LastStored.text, 2, 5) = RemoteLinesOf(em_call.item)
       /\ LastStored.metadata = em_call.item.metadata

\* C13 as amended: every record saved through an EntityMemory whose provider
\* is "mem0" (it is then bound to the Mem0Storage it built) reaches the
\* storage as a text of six lines: a blank line, the indented header
\* "Remember details about the following entity:", then "Name: <name>",
\* "Type: <type>" and "Entity Description: <description>", each indented on
\* its own line in that order, and a last line of indentation only; the
\* record's metadata is passed through unchanged.  An EntityMemory with
\* another provider that was handed a Mem0Storage saves in the local format.
C13_RemoteFormatWhenProviderMem0 ==
    /\ (SaveCalled /\ memory_provider = "mem0")
       => /\ storage.kind = "Mem0Storage"
          /\ Len(LastStored.text) = 6
          /\ LastStored.text[1] = ""
          /\ SubSeq(LastStored.text, 2, 5) = RemoteLinesOf(em_call.item)
          /\ LastStored.text[6] = Indent
          /\ LastStored.metadata = em_call.item.metadata
    /\ (SaveCalled /\ memory_provider # "mem0")
       => IsLocalText(LastStored.text)

\* C13 witness: Alice the engineer saved under the mem0 provider
C13_Witness ==
    /\ SaveCalled
    /\ memory_provider = "mem0"
    /\ LastStored.text[2] = Indent \o "Remember details about the following entity:"
    /\ LastStored.text[3] = Indent \o "Name: Alice"
    /\ LastStored.text[4] = Indent \o "Type: Person"
    /\ LastStored.text[5] = Indent \o "Entity Description: engineer"
    /\ LastStored.metadata = [relationships |-> "works at Acme"]

----------------------------------------------------------------------------
(* Telemetry.  A span is recorded by its name, the keys of the attributes  *)
(* set on it, the kinds of user data those attributes carry, and whether   *)
(* it was ended.                                                           *)

\* the kinds of user data the class docstring says are not collected
UserData == {"task_description", "task_expected_output", "agent_goal",
             "agent_backstory", "crew_inputs", "task_output", "crew_output"}

Crews == [share_crew : BOOLEAN, agents : 0..1, tasks : 0..1]

\* the inputs argument: None (or empty), or a dict with entries
InputArgs == {"none", "given"}

Span(name, keys, carries, ended) ==
    [name |-> name, keys |-> keys, carries |-> carries, ended |-> ended]

\* "crew_agents": goal and backstory of every agent
AgentsData(c) == IF c.agents > 0 THEN {"agent_goal", "agent_backstory"} ELSE {}

\* "crew_tasks": description, expected_output and context of every task
TasksData(c) ==
    IF c.tasks > 0 THEN {"task_description", "task_expected_output"} ELSE {}

\* "crew_inputs": json.dumps(inputs) if inputs else None (None sets nothing)
InputsKeys(inputs) == IF inputs = "given" THEN {"crew_inputs"} ELSE {}

\* the span crew_creation starts, fills and ends
CrewCreatedSpan(c, inputs) ==
    Span("Crew Created",
         {"crewai_version", "python_version", "crew_key", "crew_id",
          "crew_process", "crew_memory", "crew_number_of_tasks",
          "crew_number_of_agents", "crew_agents", "crew_tasks", "platform",
          "platform_release", "platform_system", "platform_version", "cpus"}
            \cup (IF c.share_crew THEN InputsKeys(inputs) ELSE {}),
         AgentsData(c) \cup TasksData(c)
            \cup (IF c.share_crew THEN InputsKeys(inputs) ELSE {}),
         TRUE)

\* the two spans task_started starts: "Task Created", ended, and
\* "Task Execution", returned open
TaskSpan(c, name, ended) ==
    Span(name,
         {"crew_key", "crew_id", "task_key", "task_id"}
            \cup (IF c.share_crew
                  THEN {"formatted_description", "formatted_expected_output"}
                  ELSE {}),
         IF c.share_crew THEN {"task_description", "task_expected_output"}
         ELSE {},
         ended)

\* the span crew_execution_span starts after its share_crew test
CrewExecutionSpan(c, inputs) ==
    Span("Crew Execution",
         {"crewai_version", "crew_key", "crew_id", "crew_agents", "crew_tasks"}
            \cup InputsKeys(inputs),
         AgentsData(c) \cup TasksData(c) \cup InputsKeys(inputs),
         FALSE)

InitTelemetry ==
    /\ ready \in BOOLEAN   \* FALSE: building the exporter raised
    /\ trace_set = FALSE
    /\ installs = 0
    /\ crew \in Crews
    /\ spans = <<>>
    /\ tel_call = NoTelCall
    /\ tel_calls = 0
    /\ KsIdle
    /\ EmIdle
    /\ ToolIdle

TelCall(op, outcome) ==
    /\ tel_calls < MaxTelCalls
    /\ tel_calls' = tel_calls + 1
    /\ tel_call' = [op |-> op, outcome |-> outcome]
    /\ UNCHANGED crew
    /\ UNCHANGED <<ksVars, emVars, toolVars>>

\* mutant: the provider is installed again on every call while ready
SetTracerAlways ==
    \E ok \in BOOLEAN :
       IF ready
       THEN IF ok
            THEN /\ installs' = installs + 1
                 /\ trace_set' = TRUE
                 /\ UNCHANGED <<ready, spans>>
                 /\ TelCall("set_tracer", "installed")
            ELSE /\ ready' = FALSE
                 /\ trace_set' = FALSE
                 /\ UNCHANGED <<installs, spans>>
                 /\ TelCall("set_tracer", "failed")
       ELSE /\ UNCHANGED <<ready, trace_set, installs, spans>>
            /\ TelCall("set_tracer", "skipped")

\* Telemetry.set_tracer; whether trace.set_tracer_provider raises is the
\* environment's choice
SetTracer ==
    \E ok \in BOOLEAN :
       IF ready /\ ~trace_set
       THEN IF ok
            THEN /\ installs' = installs + 1
                 /\ trace_set' = TRUE
                 /\ UNCHANGED <<ready, spans>>
                 /\ TelCall("set_tracer", "installed")
            ELSE /\ ready' = FALSE
                 /\ trace_set' = FALSE
                 /\ UNCHANGED <<installs, spans>>
                 /\ TelCall("set_tracer", "failed")
       ELSE /\ UNCHANGED <<ready, trace_set, installs, spans>>
            /\ TelCall("set_tracer", "skipped")

\* Telemetry.crew_creation
CrewCreation ==
    \E inputs \in InputArgs :
       /\ spans' = IF ready THEN Append(spans, CrewCreatedSpan(crew, inputs))
                   ELSE spans
       /\ UNCHANGED <<ready, trace_set, installs>>
       /\ TelCall("crew_creation", IF ready THEN "done" ELSE "skipped")

\* Telemetry.task_started
TaskStarted ==
    /\ spans' = IF ready
                THEN spans \o << TaskSpan(crew, "Task Created", TRUE),
                                 TaskSpan(crew, "Task Execution", FALSE) >>
                ELSE spans
    /\ UNCHANGED <<ready, trace_set, installs>>
    /\ TelCall("task_started", IF ready THEN "done" ELSE "skipped")

\* the spans task_started returned that are still open; 0 stands for None
OpenTaskSpans ==
    {0} \cup {i \in 1..Len(spans) :
                 spans[i].name = "Task Execution" /\ ~spans[i].ended}

\* Telemetry.task_ended: task.output.raw_output if task.output else ""
TaskEnded ==
    \E i \in OpenTaskSpans, has_output \in BOOLEAN :
       /\ spans' = IF ready /\ i # 0
                   THEN [spans EXCEPT ![i] =
                           Span(@.name, @.keys \cup {"task_output"},
                                @.carries \cup (IF has_output
                                                THEN {"task_output"} ELSE {}),
                                TRUE)]
                   ELSE spans
       /\ UNCHANGED <<ready, trace_set, installs>>
       /\ TelCall("task_ended", IF ready /\ i # 0 THEN "done" ELSE "skipped")

\* Telemetry.crew_execution_span: crew_creation first, whatever share_crew is
CrewExecutionSpanCall ==
    \E inputs \in InputArgs :
       /\ spans' = IF ~ready THEN spans
                   ELSE IF ~crew.share_crew
                   THEN Append(spans, CrewCreatedSpan(crew, inputs))
                   ELSE spans \o << CrewCreatedSpan(crew, inputs),
                                    CrewCreatedSpan(crew, inputs),
                                    CrewExecutionSpan(crew, inputs) >>
       /\ UNCHANGED <<ready, trace_set, installs>>
       /\ TelCall("crew_execution_span",
                  IF ~ready THEN "skipped"
                  ELSE IF crew.share_crew THEN "span" ELSE "none")

\* crew._execution_span: the open span crew_execution_span returned last;
\* 0 stands for None
ExecutionSpan ==
    LET open == {i \in 1..Len(spans) :
                    spans[i].name = "Crew Execution" /\ ~spans[i].ended}
    IN IF open = {} THEN 0 ELSE CHOOSE i \in open : \A j \in open : j <= i

\* Telemetry.end_crew; a task without output makes task.output.raw_output
\* raise, which leaves the span with crew_output only and never ended
EndCrew ==
    \E outputs \in BOOLEAN :
       LET i == ExecutionSpan
           acts == ready /\ crew.share_crew /\ i # 0
           complete == outputs \/ crew.tasks = 0
       IN /\ spans' =
               IF acts
               THEN [spans EXCEPT ![i] =
                       Span(@.name,
                            @.keys \cup {"crewai_version", "crew_output"}
                               \cup (IF complete THEN {"crew_tasks_output"}
                                     ELSE {}),
                            @.carries \cup {"crew_output"}
                               \cup (IF complete /\ crew.tasks > 0
                                     THEN {"task_description", "task_output"}
                                     ELSE {}),
                            complete)]
               ELSE spans
          /\ UNCHANGED <<ready, trace_set, installs>>
          /\ TelCall("end_crew", IF acts THEN "done" ELSE "skipped")

NextTelemetry ==
    \/ SetTracer
    \/ CrewCreation
    \/ TaskStarted
    \/ TaskEnded
    \/ CrewExecutionSpanCall
    \/ EndCrew

SpecTelemetry == InitTelemetry /\ [][NextTelemetry]_vars

\* C11: while crew.share_crew is false no span carries task descriptions,
\* agent goals or backstories, crew inputs, or task or crew outputs; spans
\* carry such data only when share_crew is true.
C11_NoUserDataUnlessShared ==
    ~crew.share_crew
    => \A i \in 1..Len(spans) : spans[i].carries \cap UserData = {}

\* C16: trace_set implies ready in every state; once trace_set is true a
\* set_tracer call changes nothing, so the provider is installed at most
\* once; a failed installation leaves ready and trace_set false, and no
\* operation sets ready back to true.
C16_TracerInstalledAtMostOnce ==
    /\ trace_set => ready
    /\ [][/\ trace_set' => ready'
          /\ trace_set => /\ trace_set' /\ ready'
                          /\ installs' = installs
          /\ ~ready => ~ready'
          /\ installs' <= 1
          /\ installs' # installs => trace_set'
          /\ tel_call'.outcome = "failed" => ~ready' /\ ~trace_set'
          /\ tel_call'.op # "set_tracer"
             => UNCHANGED <<ready, trace_set, installs>>]_vars

\* C16 witness: set_tracer installed the provider and was then called again
C16_Witness ==
    /\ trace_set /\ ready
    /\ installs = 1
    /\ tel_call = [op |-> "set_tracer", outcome |-> "skipped"]
    /\ tel_calls = 2

----------------------------------------------------------------------------
(* ToolCommand.create.  A handle is a sequence of characters; the folders  *)
(* are those of the directory the command is started in.                   *)

\* the handles given to create(): several of them name the same folder
Handles ==
    {<<"a">>, <<"A">>, <<"_">>, <<"-">>,
     <<"a", " ", "B">>, <<"a", "-", "b">>, <<"A", "_", "b">>,
     <<"B", "a">>}

\* one character through .replace(" ", "_").replace("-", "_").lower()
FolderChar(c) ==
    CASE c \in {" ", "-"} -> "_"
      [] c = "A" -> "a"
      [] c = "B" -> "b"
      [] OTHER -> c

RECURSIVE Join(_)
Join(cs) == IF cs = <<>> THEN "" ELSE Head(cs) \o Join(Tail(cs))

\* folder_name = handle.replace(" ", "_").replace("-", "_").lower()
FolderName(handle) == Join([i \in 1..Len(handle) |-> FolderChar(handle[i])])

StartDirs == {"/work", "/home/dev"}

InitTool ==
    /\ cwd \in StartDirs
    /\ folders \in SUBSET {"a", "_"}
    /\ tool_pc = "idle"
    /\ tool_call = NoToolCall
    /\ creates = 0
    /\ KsIdle
    /\ EmIdle
    /\ TelIdle

Exit(call, outcome) == [call EXCEPT !.outcome = outcome]

\* create() up to the try block: _ensure_not_in_project, the folder test,
\* os.makedirs, tree_copy and the replacements, os.getcwd and os.chdir
CreateBegin ==
    /\ tool_pc = "idle"
    /\ creates < MaxCreates
    /\ creates' = creates + 1
    /\ \E handle \in Handles, in_project \in BOOLEAN, copied \in BOOLEAN :
         LET name == FolderName(handle)
             call == [handle |-> handle, folder_name |-> name,
                      old_directory |-> "", made_folder |-> FALSE,
                      outcome |-> "running"]
         IN IF in_project
            THEN /\ tool_call' = Exit(call, "SystemExit:in_project")
                 /\ UNCHANGED <<cwd, folders, tool_pc>>
            ELSE IF name \in folders
            THEN /\ tool_call' = Exit(call, "SystemExit:exists")
                 /\ UNCHANGED <<cwd, folders, tool_pc>>
            ELSE IF ~copied
            THEN /\ folders' = folders \cup {name}
                 /\ tool_call' = Exit([call EXCEPT !.made_folder = TRUE],
                                      "OSError:copy")
                 /\ UNCHANGED <<cwd, tool_pc>>
            ELSE /\ folders' = folders \cup {name}
                 /\ cwd' = cwd \o "/" \o name
                 /\ tool_call' = [call EXCEPT !.made_folder = TRUE,
                                              !.old_directory = cwd]
                 /\ tool_pc' = "login"
    /\ UNCHANGED <<ksVars, emVars, telVars>>

\* mutant: the working directory is restored only when login() returns
LoginNoFinally ==
    /\ tool_pc = "login"
    /\ \E status \in {200, 401} :
         IF status # 200
         THEN /\ tool_call' = Exit(tool_call, "SystemExit:login")
              /\ tool_pc' = "idle"
              /\ UNCHANGED cwd
         ELSE /\ tool_pc' = "git_init"
              /\ UNCHANGED <<cwd, tool_call>>
    /\ UNCHANGED <<folders, creates>>
    /\ UNCHANGED <<ksVars, emVars, telVars>>

\* self.login() inside the try block; on SystemExit the finally clause
\* changes back to old_directory
Login ==
    /\ tool_pc = "login"
    /\ \E status \in {200, 401} :
         IF status # 200
         THEN /\ tool_call' = Exit(tool_call, "SystemExit:login")
              /\ tool_pc' = "idle"
              /\ cwd' = tool_call.old_directory
         ELSE /\ tool_pc' = "git_init"
              /\ UNCHANGED <<cwd, tool_call>>
    /\ UNCHANGED <<folders, creates>>
    /\ UNCHANGED <<ksVars, emVars, telVars>>

\* subprocess.run(["git", "init"], check=True), then the finally clause
GitInit ==
    /\ tool_pc = "git_init"
    /\ \E ok \in BOOLEAN :
         tool_call' = Exit(tool_call,
                           IF ok THEN "ok" ELSE "CalledProcessError:git")
    /\ tool_pc' = "idle"
    /\ cwd' = tool_call.old_directory
    /\ UNCHANGED <<folders, creates>>
    /\ UNCHANGED <<ksVars, emVars, telVars>>

NextTool == CreateBegin \/ Login \/ GitInit

SpecTool == InitTool /\ [][NextTool]_vars

\* a step that takes create() out of its try block
LeavesTry == tool_pc # "idle" /\ tool_pc' = "idle"

\* C17: create() restores the working directory to its value at entry on
\* every exit taken after it changed directory (failed login, failed git
\* init, success); when the target folder already exists it exits with
\* SystemExit before creating, copying or changing anything; a folder
\* created before a failed login is left in place.
C17_CreateRestoresWorkingDirectory ==
    [][/\ tool_pc' = "login" /\ tool_pc = "idle"
          => /\ tool_call'.old_directory = cwd
             /\ cwd' = cwd \o "/" \o tool_call'.folder_name
       /\ LeavesTry
          => /\ cwd' = tool_call.old_directory
             /\ cwd' \in StartDirs
             /\ tool_call'.outcome \in {"SystemExit:login", "ok",
                                        "CalledProcessError:git"}
             /\ folders' = folders
             /\ tool_call'.folder_name \in folders'
       /\ (tool_pc = "idle" /\ creates' = creates + 1
              /\ tool_call'.folder_name \in folders)
          => /\ tool_call'.outcome \in {"SystemExit:exists",
                                        "SystemExit:in_project"}
             /\ UNCHANGED <<cwd, folders, tool_pc>>
       /\ tool_call'.outcome = "SystemExit:exists"
          => UNCHANGED <<cwd, folders, tool_pc>>]_vars

\* C17 witness: login failed after the folder was made; the process is back
\* in the directory it started in and the folder is still there
C17_Witness ==
    /\ tool_pc = "idle"
    /\ tool_call.outcome = "SystemExit:login"
    /\ tool_call.made_folder
    /\ tool_call.folder_name = "a_b"
    /\ tool_call.folder_name \in folders
    /\ cwd = tool_call.old_directory
    /\ cwd \in StartDirs

====
